---- MODULE Spec2Model ----
(***************************************************************************)
(* Verification model of roolsara/ATSLab:                                  *)
(*   - explore_dataframe (src/data_scrapping/utils_BEA.py): the filtered,  *)
(*     paginated table explorer and its ipywidgets callbacks;              *)
(*   - main / get_place_id / get_airport_details                           *)
(*     (src/data_scrapping/airport_ratings_scraper.py): the ratings loop;  *)
(*   - get_bea_state_data (src/data_scrapping/utils_BEA.py);               *)
(*   - plot_heatmap_by_group (src/analysis/utils_plot.py).                 *)
(* Strings whose characters matter are tuples of one-character strings.    *)
(***************************************************************************)
EXTENDS Integers, Sequences, FiniteSets, TLC

VARIABLES
    df,          \* explore_dataframe: the input table (sequence of rows)
    page_size,   \* explore_dataframe: the page_size argument
    filters,     \* explore_dataframe: column -> widgets.Text value
    page_slider, \* explore_dataframe: the IntSlider [value, max] (min is 1)
    output,      \* explore_dataframe: contents of the Output widget
    depth,       \* deepest nesting of update() reached by the last event
    last,        \* the last event and the slider value before it
    airports,    \* main: the rows of INPUT_FILE, [APT_CODE, APT_NAME]
    apt_i,       \* main: index of the next row of the loop at line 89
    results,     \* main: the list results
    requests,    \* main: the HTTP requests issued so far, in order
    out_file,    \* main: the rows of OUTPUT_FILE, or NotWritten
    pc,          \* main: "idle", "loop", "done" or "raised"
    line_codes,  \* get_bea_state_data: the line_codes argument
    metric_note, \* get_bea_state_data: the metric_note argument
    bea_i,       \* get_bea_state_data: index of the next line code
    dfs,         \* get_bea_state_data: the list dfs
    bea_requests,\* get_bea_state_data: the line codes requested so far
    bea_ret,     \* get_bea_state_data: the returned frame, or NoReturn
    bea_pc,      \* get_bea_state_data: "idle", "loop", "done" or "raised"
    hm_df,       \* plot_heatmap_by_group: the rows of df, [grp, x, y]
    hm_normalize,\* plot_heatmap_by_group: the normalize argument
    fig,         \* plot_heatmap_by_group: the panels of the figure, or NoFig
    hm_pc        \* plot_heatmap_by_group: "idle", "called", "done", "raised"

explorerVars == <<df, page_size, filters, page_slider, output, depth, last>>

mainVars == <<airports, apt_i, results, requests, out_file, pc>>

beaVars == <<line_codes, metric_note, bea_i, dfs, bea_requests, bea_ret,
            bea_pc>>

fetcherVars == <<mainVars, beaVars>>

heatmapVars == <<hm_df, hm_normalize, fig, hm_pc>>

vars == <<explorerVars, fetcherVars, heatmapVars>>

----------------------------------------------------------------------------
(* Bounds of the explored inputs.                                          *)

MaxRows == 3
MaxPageSize == 2
MaxFilterLen == 1
MaxAirports == 2
MaxLineCodes == 2
MaxHeatRows == 2

----------------------------------------------------------------------------
(* Generic helpers.                                                        *)

Min2(a, b) == IF a <= b THEN a ELSE b

Max2(a, b) == IF a >= b THEN a ELSE b

SeqsUpTo(S, n) == UNION {[1..k -> S] : k \in 0..n}

----------------------------------------------------------------------------
(* Cell values and their stringification (df[col].astype(str)).            *)

StrCell(s) == [t |-> "str", v |-> s]

IntCell(n) == [t |-> "int", v |-> n]

Digit(k) == <<"0", "1", "2", "3", "4", "5", "6", "7", "8", "9">>[k + 1]

RECURSIVE IntToStr(_)
IntToStr(n) == IF n < 10 THEN <<Digit(n)>>
               ELSE IntToStr(n \div 10) \o <<Digit(n % 10)>>

AsStr(c) == IF c.t = "int" THEN IntToStr(c.v) ELSE c.v

----------------------------------------------------------------------------
(* Filter texts: str.strip() and Series.str.contains(pat, case=False).     *)

IsSpace(c) == c = " "

RECURSIVE LStrip(_)
LStrip(s) == IF s # <<>> /\ IsSpace(Head(s)) THEN LStrip(Tail(s)) ELSE s

RECURSIVE RStrip(_)
RStrip(s) == IF s # <<>> /\ IsSpace(s[Len(s)])
             THEN RStrip(SubSeq(s, 1, Len(s) - 1)) ELSE s

Strip(s) == RStrip(LStrip(s))

Lower(c) == IF c = "A" THEN "a" ELSE IF c = "B" THEN "b" ELSE c

\* One pattern character against one subject character under re.IGNORECASE:
\* str.contains defaults to regex=True, so "." is the any-character wildcard.
CharMatches(p, c) == p = "." \/ Lower(p) = Lower(c)

MatchesAt(pat, s, i) ==
    \A j \in 1..Len(pat) : CharMatches(pat[j], s[i + j - 1])

Contains(s, pat) ==
    \E i \in 1..(Len(s) - Len(pat) + 1) : MatchesAt(pat, s, i)

\* The mask computed at line 152 for one row of one column.
KeepRow(row, col, text) == Contains(AsStr(row[col]), text)

\* The guard at line 150: the filter is applied when its stripped text is
\* non-empty.
FilterActive(text) == Strip(text) # <<>>

----------------------------------------------------------------------------
(* The explored tables.  A table is a sequence of rows, a row a tuple of   *)
(* one cell per column; a filtered table is the sequence of the row        *)
(* positions it keeps (the pandas index labels).                           *)

Columns == <<"NAME", "N">>

NumCols == Len(Columns)

RowKinds == { <<StrCell(<<"A", "b">>), IntCell(1)>>,
              <<StrCell(<<"b", " ", "a">>), IntCell(12)>>,
              <<StrCell(<<"B">>), IntCell(2)>> }

SmallTables == SeqsUpTo(RowKinds, MaxRows)

\* 45 rows, of which the rows 9, 18, 27, 36, 45 carry N = 12.
ExampleTable ==
    [i \in 1..45 |-> IF i % 9 = 0
                     THEN <<StrCell(<<"b", " ", "a">>), IntCell(12)>>
                     ELSE <<StrCell(<<"A", "b">>), IntCell(1)>>]

DefaultPageSize == 20

Alphabet == {"a", "A", ".", "1"}

\* Texts a user types: every text over Alphabet up to MaxFilterLen, and
\* three texts with surrounding or only whitespace.
FilterTexts == SeqsUpTo(Alphabet, MaxFilterLen)
               \cup { <<" ">>, <<" ", "a">>, <<"2", " ">> }

\* Positions a slider can be dragged to (its max never exceeds the rows).
SliderPositions == 1..Max2(MaxRows, Len(ExampleTable))

NoFilters == [c \in 1..NumCols |-> <<>>]

----------------------------------------------------------------------------
(* explore_dataframe.update                                                *)

\* Mutant of FilterCol: the mask is applied to df instead of df_filtered, so
\* an active filter forgets the filters of the columns before it.
FilterCol_Unchained(table, rows, col, text) ==
    IF FilterActive(text)
    THEN SelectSeq([i \in 1..Len(table) |-> i],
                   LAMBDA i : KeepRow(table[i], col, text))
    ELSE rows

\* Lines 150-153 for one column.
FilterCol(table, rows, col, text) ==
    IF FilterActive(text)
    THEN SelectSeq(rows, LAMBDA i : KeepRow(table[i], col, text))
    ELSE rows

\* Lines 146-153: df.copy(), then the columns in order.
RECURSIVE FilterFrom(_, _, _, _)
FilterFrom(table, rows, flt, col) ==
    IF col > NumCols THEN rows
    ELSE FilterFrom(table, FilterCol(table, rows, col, flt[col]), flt, col + 1)

ApplyFilters(table, flt) ==
    FilterFrom(table, [i \in 1..Len(table) |-> i], flt, 1)

\* math.ceil(n / ps)
Ceil(n, ps) == (n + ps - 1) \div ps

\* Mutant of NPages: the max(1, ...) of line 156 left out.
NPages_NoFloor(n, ps) == Ceil(n, ps)

\* Line 156.
NPages(n, ps) == Max2(1, Ceil(n, ps))

\* Line 158.
CurrentPage(value, n_pages) == Min2(value, n_pages)

\* A bound of a Python slice over n items: a negative bound counts from the
\* end, and bounds are clipped to 0..n.
SliceBound(b, n) == IF b < 0 THEN Max2(0, n + b) ELSE Min2(b, n)

\* rows.iloc[start:end], line 162.
ILoc(rows, start, end) ==
    SubSeq(rows, SliceBound(start, Len(rows)) + 1,
                 SliceBound(end, Len(rows)))

\* Mutant of PageSlice: the window starts at current_page * page_size.
PageSlice_OffByOne(rows, current_page, ps) ==
    LET start == current_page * ps
        end == start + ps
    IN ILoc(rows, start, end)

\* Lines 160-162.
PageSlice(rows, current_page, ps) ==
    LET start == (current_page - 1) * ps
        end == start + ps
    IN ILoc(rows, start, end)

\* Line 166.
StatusLine(current_page, n_pages, n_rows) ==
    "Page " \o ToString(current_page) \o "/" \o ToString(n_pages)
            \o " | " \o ToString(n_rows) \o " rows found"

\* Lines 165-166: what one run of update leaves in the Output widget.
Render(table, rows, current_page, n_pages, ps) ==
    [ page         |-> PageSlice(rows, current_page, ps),
      shown        |-> [k \in 1..Len(PageSlice(rows, current_page, ps)) |->
                            table[PageSlice(rows, current_page, ps)[k]]],
      status       |-> StatusLine(current_page, n_pages, Len(rows)),
      current_page |-> current_page,
      n_pages      |-> n_pages,
      n_rows       |-> Len(rows) ]

\* Does the assignment page_slider.max = n_pages (line 157) change
\* page_slider.value?  The bounded-int validator of the slider lowers the
\* value to a max set below it, and a value change notifies its observers.
MaxLowersValue(sl, n_pages) == n_pages < sl.value

\* update(), lines 142-166, called at nesting level d with the slider sl.
\* The value change made by line 157 calls update again (line 171) before
\* line 158 of the outer call runs.  The result is the slider, the content
\* of the Output widget and the deepest nesting level reached.
RECURSIVE update(_, _, _, _, _)
update(table, ps, flt, sl, d) ==
    LET rows_filtered == ApplyFilters(table, flt)
        n_pages == NPages(Len(rows_filtered), ps)
        nested == update(table, ps, flt,
                         [value |-> n_pages, max |-> sl.max], d + 1)
        afterMax ==
            IF MaxLowersValue(sl, n_pages)
            THEN [ slider |-> [nested.slider EXCEPT !.max = n_pages],
                   output |-> nested.output,
                   depth  |-> nested.depth ]
            ELSE [ slider |-> [sl EXCEPT !.max = n_pages],
                   output |-> <<>>,          \* clear_output(), line 145
                   depth  |-> d ]
        current_page == CurrentPage(afterMax.slider.value, n_pages)
    IN [ slider |-> afterMax.slider,
         output |-> Append(afterMax.output,
                           Render(table, rows_filtered, current_page,
                                  n_pages, ps)),
         depth  |-> afterMax.depth ]

----------------------------------------------------------------------------
(* The explorer as a state machine.                                        *)

\* explore_dataframe, lines 133-178: widgets created, then update().
OpenExplorer ==
    /\ \/ df \in SmallTables /\ page_size \in 1..MaxPageSize
       \/ df = ExampleTable /\ page_size = DefaultPageSize
    /\ filters = NoFilters
    /\ LET r == update(df, page_size, NoFilters, [value |-> 1, max |-> 1], 1)
       IN /\ page_slider = r.slider
          /\ output = r.output
          /\ depth = r.depth
    /\ last = [kind |-> "init", col |-> 0, value |-> 1]

\* A Text widget's value changes (observer registered at line 170).
FilterChange(col, text) ==
    /\ text # filters[col]
    /\ filters' = [filters EXCEPT ![col] = text]
    /\ LET r == update(df, page_size, filters', page_slider, 1)
       IN /\ page_slider' = r.slider
          /\ output' = r.output
          /\ depth' = r.depth
    /\ last' = [kind |-> "filter", col |-> col, value |-> page_slider.value]
    /\ UNCHANGED <<df, page_size, fetcherVars, heatmapVars>>

\* The user moves the slider (observer registered at line 171).
SliderChange(v) ==
    /\ v \in 1..page_slider.max
    /\ v # page_slider.value
    /\ LET r == update(df, page_size, filters,
                       [page_slider EXCEPT !.value = v], 1)
       IN /\ page_slider' = r.slider
          /\ output' = r.output
          /\ depth' = r.depth
    /\ last' = [kind |-> "slider", col |-> 0, value |-> page_slider.value]
    /\ UNCHANGED <<df, page_size, filters, fetcherVars, heatmapVars>>

NextExplorer ==
    \/ \E col \in 1..NumCols, text \in FilterTexts : FilterChange(col, text)
    \/ \E v \in SliderPositions : SliderChange(v)

\* No explorer is open.
IdleExplorer ==
    /\ df = <<>>
    /\ page_size = DefaultPageSize
    /\ filters = NoFilters
    /\ page_slider = [value |-> 1, max |-> 1]
    /\ output = <<>>
    /\ depth = 0
    /\ last = [kind |-> "idle", col |-> 0, value |-> 1]

----------------------------------------------------------------------------
(* airport_ratings_scraper.py                                              *)

None == "<None>"

NotWritten == [written |-> FALSE]

Written(rows) == [written |-> TRUE, rows |-> rows]

\* d.get(k) of a dict modelled as a record.
Get(d, k) == IF k \in DOMAIN d THEN d[k] ELSE None

\* The condition "not place_id" of lines 99 and 104.
Falsy(v) == v = None \/ v = ""

Airports == { [APT_CODE |-> "CDG", APT_NAME |-> "Paris Charles de Gaulle"],
              [APT_CODE |-> "ORY", APT_NAME |-> "Paris Orly"] }

PlaceIds == {"P1", "P2"}

\* What the Find Place request can do: raise in requests.get or .json(), or
\* return a body: candidates found, none found, or an error-flagged body
\* that carries no candidates.
Raises == [raises |-> TRUE]

FindPlaceBodies ==
    {[status |-> "OK", candidates |-> <<[place_id |-> p]>>] : p \in PlaceIds}
    \cup {[status |-> "ZERO_RESULTS", candidates |-> <<>>]}
    \cup {[status |-> "REQUEST_DENIED"]}

\* What the Details request can return: a result with all three fields, a
\* result of a place without ratings, an error-flagged body without result.
DetailsBodies ==
    { [status |-> "OK",
       result |-> [name |-> "Aeroport", rating |-> "4.1",
                   user_ratings_total |-> "250"]],
      [status |-> "OK", result |-> [name |-> "Aeroport"]],
      [status |-> "NOT_FOUND"] }

\* get_place_id, lines 45-47, on the parsed body.
get_place_id(resp) ==
    IF Get(resp, "candidates") # None /\ resp.candidates # <<>>
    THEN resp.candidates[1].place_id
    ELSE None

\* get_airport_details, line 71, on the parsed body: resp.get("result", {}).
get_airport_details(resp) ==
    IF "result" \in DOMAIN resp THEN resp.result ELSE <<>>

FindPlaceRequest(query) == [api |-> "findplacefromtext", input |-> query]

DetailsRequest(place_id) == [api |-> "details", place_id |-> place_id]

\* Line 93.
CodeQuery(code) == code \o " Airport"

\* Mutant of NotFoundRow: APT_NAME filled with the code.
NotFoundRow_CodeAsName(code, name) ==
    [APT_CODE |-> code, APT_NAME |-> code, rating |-> None, reviews |-> None]

\* Line 105.
NotFoundRow(code, name) ==
    [APT_CODE |-> code, APT_NAME |-> name, rating |-> None, reviews |-> None]

\* Mutant of FoundRow: rating read from the review count.
FoundRow_RatingFromReviews(code, name, details) ==
    [ APT_CODE    |-> code,
      APT_NAME    |-> name,
      GOOGLE_NAME |-> Get(details, "name"),
      rating      |-> Get(details, "user_ratings_total"),
      reviews     |-> Get(details, "user_ratings_total") ]

\* Lines 112-118.
FoundRow(code, name, details) ==
    [ APT_CODE    |-> code,
      APT_NAME    |-> name,
      GOOGLE_NAME |-> Get(details, "name"),
      rating      |-> Get(details, "rating"),
      reviews     |-> Get(details, "user_ratings_total") ]

\* Mutant of RetryWithName: the retry is made whatever the first lookup gave.
RetryWithName_Always(place_id) == TRUE

\* Whether the second lookup of line 101 is made.
RetryWithName(place_id) == Falsy(place_id)

\* The place id the details are requested for at line 109.
DetailsTarget(first, second) == IF RetryWithName(first) THEN second ELSE first

\* What is left of the run when an exception leaves main: lines 125-128
\* are not reached.
FileAfterRaise(rows) == NotWritten

\* main, lines 80-86.
InitMain ==
    /\ airports \in SeqsUpTo(Airports, MaxAirports)
    /\ apt_i = 1
    /\ results = <<>>
    /\ requests = <<>>
    /\ out_file = NotWritten
    /\ pc = "loop"

IdleMain ==
    /\ airports = <<>>
    /\ apt_i = 1
    /\ results = <<>>
    /\ requests = <<>>
    /\ out_file = NotWritten
    /\ pc = "idle"

\* One iteration of the loop, lines 89-118, for the responses r1 (code
\* lookup), r2 (name lookup) and r3 (details), each a body or Raises.
ProcessAirport(r1, r2, r3) ==
    /\ pc = "loop"
    /\ apt_i <= Len(airports)
    /\ LET code == airports[apt_i].APT_CODE
           name == airports[apt_i].APT_NAME
           q1 == FindPlaceRequest(CodeQuery(code))
           q2 == FindPlaceRequest(name)
           first == IF r1 = Raises THEN None ELSE get_place_id(r1)
           retry == RetryWithName(first)
           second == IF r2 = Raises THEN None ELSE get_place_id(r2)
           place_id == DetailsTarget(first, second)
           lookups == IF retry THEN <<q1, q2>> ELSE <<q1>>
       IN IF r1 = Raises
          THEN /\ requests' = Append(requests, q1)
               /\ pc' = "raised"
               /\ out_file' = FileAfterRaise(results)
               /\ UNCHANGED <<apt_i, results>>
          ELSE IF retry /\ r2 = Raises
          THEN /\ requests' = requests \o lookups
               /\ pc' = "raised"
               /\ out_file' = FileAfterRaise(results)
               /\ UNCHANGED <<apt_i, results>>
          ELSE IF Falsy(place_id)
          THEN /\ requests' = requests \o lookups
               /\ results' = Append(results, NotFoundRow(code, name))
               /\ apt_i' = apt_i + 1
               /\ UNCHANGED <<pc, out_file>>
          ELSE IF r3 = Raises
          THEN /\ requests' = (requests \o lookups)
                                 \o <<DetailsRequest(place_id)>>
               /\ pc' = "raised"
               /\ out_file' = FileAfterRaise(results)
               /\ UNCHANGED <<apt_i, results>>
          ELSE /\ requests' = (requests \o lookups)
                                 \o <<DetailsRequest(place_id)>>
               /\ results' = Append(results,
                      FoundRow(code, name, get_airport_details(r3)))
               /\ apt_i' = apt_i + 1
               /\ UNCHANGED <<pc, out_file>>
    /\ UNCHANGED <<airports, explorerVars, beaVars, heatmapVars>>

\* Lines 125-129, after the loop.
WriteCsv ==
    /\ pc = "loop"
    /\ apt_i > Len(airports)
    /\ out_file' = Written(results)
    /\ pc' = "done"
    /\ UNCHANGED <<airports, apt_i, results, requests>>
    /\ UNCHANGED <<explorerVars, beaVars, heatmapVars>>

NextMain ==
    \/ \E r1 \in FindPlaceBodies \cup {Raises},
          r2 \in FindPlaceBodies \cup {Raises},
          r3 \in DetailsBodies \cup {Raises} : ProcessAirport(r1, r2, r3)
    \/ WriteCsv

----------------------------------------------------------------------------
(* get_bea_state_data (utils_BEA.py, lines 181-261)                        *)

NoReturn == [returned |-> FALSE]

Returned(frame) == [returned |-> TRUE, frame |-> frame]

LineCodes == {1, 3}

DigitValue(c) == CHOOSE k \in 0..9 : Digit(k) = c

\* cast(pl.Int64) / cast(pl.Int32) of a string of digits.
RECURSIVE ParseInt(_)
ParseInt(s) == IF s = <<>> THEN 0
               ELSE ParseInt(SubSeq(s, 1, Len(s) - 1)) * 10
                    + DigitValue(s[Len(s)])

RECURSIVE Pow10(_)
Pow10(n) == IF n = 0 THEN 1 ELSE 10 * Pow10(n - 1)

\* The bodies the GetData request can return for a line code: the data
\* rows with or without the notes and the statistic's name and unit, or an
\* error-flagged body without Results or without Data.
BeaData(line_code) ==
    << [GeoName |-> "Ohio", TimePeriod |-> <<"2", "0", "2", "0">>,
        DataValue |-> IntToStr(line_code + 14), UNIT_MULT |-> <<"3">>,
        Code |-> "SAGDP"],
       [GeoName |-> "Utah", TimePeriod |-> <<"2", "0", "2", "1">>,
        DataValue |-> <<"7">>, UNIT_MULT |-> <<"0">>, Code |-> "SAGDP"] >>

BeaBodies(line_code) ==
    { [BEAAPI |-> [Results |-> [Data |-> BeaData(line_code),
                                Statistic |-> "GDP",
                                UnitOfMeasure |-> "Thousands of dollars",
                                Notes |-> <<[NoteText |-> " GDP by state "]>>]]],
      [BEAAPI |-> [Results |-> [Data |-> BeaData(line_code),
                                Statistic |-> "GDP",
                                UnitOfMeasure |-> "Thousands of dollars"]]],
      [BEAAPI |-> [Results |-> [Data |-> BeaData(line_code)]]],
      [BEAAPI |-> [Results |-> [Error |-> "invalid LineCode"]]],
      [BEAAPI |-> [Error |-> "invalid UserID"]] }

\* The test of line 234.
BeaBodyIsError(meta) ==
    \/ "Results" \notin DOMAIN meta.BEAAPI
    \/ "Data" \notin DOMAIN meta.BEAAPI.Results

\* Lines 237-247 for one row of Data.
BeaRow(r, line_code) ==
    [ STATE      |-> r.GeoName,
      YEAR       |-> ParseInt(r.TimePeriod),
      LINE_CODE  |-> line_code,
      UNIT_MULT  |-> ParseInt(r.UNIT_MULT),
      VALUE      |-> ParseInt(r.DataValue),
      VALUE_MULT |-> ParseInt(r.DataValue) * Pow10(ParseInt(r.UNIT_MULT)) ]

df_line_code(meta, line_code) ==
    [k \in 1..Len(meta.BEAAPI.Results.Data) |->
        BeaRow(meta.BEAAPI.Results.Data[k], line_code)]

\* pl.concat(dfs), line 259.
RECURSIVE Concat(_)
Concat(frames) == IF frames = <<>> THEN <<>>
                  ELSE Head(frames) \o Concat(Tail(frames))

\* Mutant of ReturnAfterRaise: the frames collected so far are returned.
ReturnAfterRaise_Partial(frames) == Returned(Concat(frames))

\* What the caller holds when an exception leaves get_bea_state_data:
\* line 261 is not reached.
ReturnAfterRaise(frames) == NoReturn

\* Lines 251-257, reached after the append of line 249: the print of line
\* 251 reads Statistic and UnitOfMeasure, and with metric_note line 254
\* reads Notes[0]['NoteText']; a missing key or an empty Notes raises.
PrintsRaise(meta, note) ==
    LET res == meta.BEAAPI.Results
    IN \/ "Statistic" \notin DOMAIN res
       \/ "UnitOfMeasure" \notin DOMAIN res
       \/ /\ note
          /\ \/ "Notes" \notin DOMAIN res
             \/ res.Notes = <<>>
             \/ "NoteText" \notin DOMAIN res.Notes[1]

\* Lines 214-215.
InitBea ==
    /\ line_codes \in SeqsUpTo(LineCodes, MaxLineCodes)
    /\ metric_note \in BOOLEAN
    /\ bea_i = 1
    /\ dfs = <<>>
    /\ bea_requests = <<>>
    /\ bea_ret = NoReturn
    /\ bea_pc = "loop"

IdleBea ==
    /\ line_codes = <<>>
    /\ metric_note = FALSE
    /\ bea_i = 1
    /\ dfs = <<>>
    /\ bea_requests = <<>>
    /\ bea_ret = NoReturn
    /\ bea_pc = "idle"

\* One iteration of the loop, lines 217-257, for the response r: a body,
\* or Raises when requests.get or raise_for_status raises.
FetchLineCode(r) ==
    /\ bea_pc = "loop"
    /\ bea_i <= Len(line_codes)
    /\ r \in BeaBodies(line_codes[bea_i]) \cup {Raises}
    /\ bea_requests' = Append(bea_requests, line_codes[bea_i])
    /\ IF r = Raises \/ BeaBodyIsError(r)
       THEN /\ bea_pc' = "raised"
            /\ bea_ret' = ReturnAfterRaise(dfs)
            /\ UNCHANGED <<bea_i, dfs>>
       ELSE IF PrintsRaise(r, metric_note)
       THEN /\ dfs' = Append(dfs, df_line_code(r, line_codes[bea_i]))
            /\ bea_pc' = "raised"
            /\ bea_ret' = ReturnAfterRaise(dfs')
            /\ UNCHANGED bea_i
       ELSE /\ dfs' = Append(dfs, df_line_code(r, line_codes[bea_i]))
            /\ bea_i' = bea_i + 1
            /\ UNCHANGED <<bea_pc, bea_ret>>
    /\ UNCHANGED <<line_codes, metric_note, explorerVars, mainVars,
                   heatmapVars>>

\* Lines 259-261; pl.concat raises on an empty list.
ReturnFrame ==
    /\ bea_pc = "loop"
    /\ bea_i > Len(line_codes)
    /\ IF dfs = <<>>
       THEN bea_pc' = "raised" /\ bea_ret' = ReturnAfterRaise(dfs)
       ELSE bea_pc' = "done" /\ bea_ret' = Returned(Concat(dfs))
    /\ UNCHANGED <<line_codes, metric_note, bea_i, dfs, bea_requests>>
    /\ UNCHANGED <<explorerVars, mainVars, heatmapVars>>

NextBea ==
    \/ \E r \in UNION {BeaBodies(c) : c \in LineCodes} \cup {Raises} :
           FetchLineCode(r)
    \/ ReturnFrame

----------------------------------------------------------------------------
(* plot_heatmap_by_group (utils_plot.py, lines 121-241)                    *)

NoFig == <<>>

\* The values of the three columns; None is the null value of a column.
GroupValues == {"A", "B", None}

XValues == {"lo", "hi", None}

YValues == {"east", "west", None}

\* The rows without a null value.
FullRowKinds ==
    {r \in [grp : GroupValues, x : XValues, y : YValues] :
        r.grp # None /\ r.x # None /\ r.y # None}

\* Rows with a null group, a null x and a null y value.
NullRowKinds ==
    { [grp |-> None, x |-> "lo", y |-> "east"],
      [grp |-> "A", x |-> None, y |-> "east"],
      [grp |-> "B", x |-> "lo", y |-> None] }

HeatRowKinds == FullRowKinds \cup NullRowKinds

\* A table of three rows: two groups that share one x value.
ExampleHeatRows ==
    << [grp |-> "A", x |-> "lo", y |-> "east"],
       [grp |-> "A", x |-> "hi", y |-> "east"],
       [grp |-> "B", x |-> "lo", y |-> "west"] >>

\* A cell of a pivoted frame: NaN, or the number num / den.
NaN == [nan |-> TRUE]

Num(n, d) == [nan |-> FALSE, num |-> n, den |-> d]

\* Lines 169-173: group_by([group_col, x_col, y_col]).len(): one entry per
\* observed combination, with the number of rows that carry it.  A null is
\* a key value like any other.
df_counts(rows) ==
    [key \in {rows[k] : k \in 1..Len(rows)} |->
        Cardinality({k \in 1..Len(rows) : rows[k] = key})]

\* The orders of the elements of a set.
UniqueLists(S) ==
    {l \in [1..Cardinality(S) -> S] : \A a, b \in 1..Cardinality(S) :
                                          l[a] = l[b] => a = b}

ColumnValues(counts, col) == {key[col] : key \in DOMAIN counts}

\* Series.unique().to_list(), lines 176-178: the distinct values of a
\* column, the null included, in an order the library does not fix (here:
\* the order in which they stand in the list order).
unique(counts, col, order) ==
    SelectSeq(order, LAMBDA v : v \in ColumnValues(counts, col))

\* Line 190: filter(pl.col(group_col) == val).  The comparison with a null
\* val is null for every row, and filter keeps no row for it.
GroupRows(counts, val) ==
    IF val = None THEN {}
    ELSE {key \in DOMAIN counts : key.grp = val}

\* Line 193: whether reindex finds a label of all_x or all_y among the
\* labels of the pivot.  The pivot carries NaN for a null label and the
\* axis lists carry None; whether the two match is left to the library
\* (null_found).
LabelFound(label, null_found) == label # None \/ null_found

\* Lines 188-195: the rows of one group pivoted on y and x, reindexed on
\* the axis lists.
df_filtered(counts, val, all_x, all_y, null_found) ==
    [iy \in 1..Len(all_y) |-> [ix \in 1..Len(all_x) |->
        LET key == [grp |-> val, x |-> all_x[ix], y |-> all_y[iy]]
        IN IF /\ key \in GroupRows(counts, val)
              /\ LabelFound(all_x[ix], null_found)
              /\ LabelFound(all_y[iy], null_found)
           THEN Num(counts[key], 1)
           ELSE NaN]]

\* The cells of a frame, row after row (DataFrame.values).
RECURSIVE Flatten(_)
Flatten(frame) == IF frame = <<>> THEN <<>>
                  ELSE Head(frame) \o Flatten(Tail(frame))

\* np.nansum: the exact sum of the non-NaN cells, as a fraction.
RECURSIVE NanSum(_)
NanSum(cells) ==
    IF cells = <<>> THEN Num(0, 1)
    ELSE LET rest == NanSum(Tail(cells))
             c == Head(cells)
         IN IF c.nan THEN rest
            ELSE Num(c.num * rest.den + rest.num * c.den, c.den * rest.den)

\* Line 198: np.nansum over the cells of the group's frame (whole counts).
GroupTotal(frame) == NanSum(Flatten(frame)).num

\* Line 201.
IsNormalized(normalize, total) == normalize /\ total > 0

\* Lines 202 and 205: cell / total * 100.0, NaN staying NaN.
df_norm(frame, normalized, total) ==
    [iy \in DOMAIN frame |-> [ix \in DOMAIN frame[iy] |->
        IF normalized /\ ~frame[iy][ix].nan
        THEN Num(frame[iy][ix].num * 100, total)
        ELSE frame[iy][ix]]]

\* The labels of the model in the order the pivot puts them: the null label
\* first, then the strings as Python compares them.
SortedLabels == <<None, "A", "B", "east", "hi", "lo", "west">>

LabelRank(v) == CHOOSE k \in 1..Len(SortedLabels) : SortedLabels[k] = v

\* The labels of S in the order of a pivot axis.
SortLabels(S) ==
    CHOOSE l \in UniqueLists(S) :
        \A a, b \in 1..Len(l) : a < b => LabelRank(l[a]) < LabelRank(l[b])

\* The index (col = "y") or the columns (col = "x") of the pivot of lines
\* 188-192 for one group: the values the group carries, sorted.
OwnAxis(counts, val, col) ==
    SortLabels({key[col] : key \in GroupRows(counts, val)})

\* Mutant of Panel: the reindex of line 193 left out, so the panel keeps
\* the axes of its own group.
Panel_OwnAxes(counts, val, all_x, all_y, normalize, null_found) ==
    LET own_x == OwnAxis(counts, val, "x")
        own_y == OwnAxis(counts, val, "y")
        frame == df_filtered(counts, val, own_x, own_y, TRUE)
        total == GroupTotal(frame)
        normalized == IsNormalized(normalize, total)
    IN [ title  |-> <<"grp", "=", val>>,
         group  |-> val,
         x      |-> own_x,
         y      |-> own_y,
         z      |-> df_norm(frame, normalized, total),
         metric |-> IF normalized THEN "PERCENT" ELSE "COUNT" ]

\* Lines 183 and 186-230: the subplot of one group.
Panel(counts, val, all_x, all_y, normalize, null_found) ==
    LET frame == df_filtered(counts, val, all_x, all_y, null_found)
        total == GroupTotal(frame)
        normalized == IsNormalized(normalize, total)
    IN [ title  |-> <<"grp", "=", val>>,
         group  |-> val,
         x      |-> all_x,
         y      |-> all_y,
         z      |-> df_norm(frame, normalized, total),
         metric |-> IF normalized THEN "PERCENT" ELSE "COUNT" ]

CallHeatmap ==
    /\ hm_df \in SeqsUpTo(HeatRowKinds, MaxHeatRows) \cup {ExampleHeatRows}
    /\ hm_normalize \in BOOLEAN
    /\ fig = NoFig
    /\ hm_pc = "called"

IdleHeatmap ==
    /\ hm_df = <<>>
    /\ hm_normalize = FALSE
    /\ fig = NoFig
    /\ hm_pc = "idle"

\* The whole call for one outcome of the three unique() calls and of the
\* label lookup of reindex.
PlotHeatmap(g_order, x_order, y_order, null_found) ==
    LET counts == df_counts(hm_df)
        group_vals == unique(counts, "grp", g_order)
        all_x == unique(counts, "x", x_order)
        all_y == unique(counts, "y", y_order)
    IN /\ hm_pc = "called"
       /\ Len(group_vals) > 0
       /\ fig' = [p \in 1..Len(group_vals) |->
                     Panel(counts, group_vals[p], all_x, all_y,
                           hm_normalize, null_found)]
       /\ hm_pc' = "done"
       /\ UNCHANGED <<hm_df, hm_normalize, explorerVars, fetcherVars>>

\* make_subplots(rows=1, cols=0), line 181, raises for a table without rows.
PlotHeatmapRaises ==
    /\ hm_pc = "called"
    /\ ColumnValues(df_counts(hm_df), "grp") = {}
    /\ hm_pc' = "raised"
    /\ UNCHANGED <<hm_df, hm_normalize, fig, explorerVars, fetcherVars>>

NextHeatmap ==
    \/ \E g_order \in UniqueLists(GroupValues),
          x_order \in UniqueLists(XValues),
          y_order \in UniqueLists(YValues),
          null_found \in BOOLEAN :
              PlotHeatmap(g_order, x_order, y_order, null_found)
    \/ PlotHeatmapRaises

----------------------------------------------------------------------------
(* Specifications.                                                         *)

\* The table explorer alone.
InitExplorer == OpenExplorer /\ IdleMain /\ IdleBea /\ IdleHeatmap

SpecExplorer == InitExplorer /\ [][NextExplorer]_vars

\* One run of either fetcher: the ratings script or get_bea_state_data.
InitFetcher ==
    /\ IdleExplorer /\ IdleHeatmap
    /\ \/ InitMain /\ IdleBea
       \/ IdleMain /\ InitBea

NextFetcher ==
    \/ NextMain
    \/ NextBea

SpecFetcher == InitFetcher /\ [][NextFetcher]_vars

\* The same runs, with the loops not stopping on their own: both are
\* sequential loops of blocking calls, so an iteration that can run does.
FairSpecFetcher == SpecFetcher /\ WF_vars(NextFetcher)

\* One call of plot_heatmap_by_group.
InitHeatmap == IdleExplorer /\ IdleMain /\ IdleBea /\ CallHeatmap

SpecHeatmap == InitHeatmap /\ [][NextHeatmap]_vars

----------------------------------------------------------------------------
(* Properties of the table explorer (SpecExplorer).                        *)

LastRender == output[Len(output)]

RowSet(rows) == {rows[k] : k \in 1..Len(rows)}

\* C1: every recompute uses total_pages = max(1, ceil(N / P)) for the
\* filtered row count N and page size P, and renders and reports a page in
\* [1, total_pages]; the slider rests in that range too.  With N = 0 that is
\* one page, page 1, an empty slice and a status line reporting 0 rows.
C1_PageWithinTotalPages ==
    /\ Len(output) >= 1
    /\ \A k \in 1..Len(output) :
         LET r == output[k]
         IN /\ r.n_rows = Len(ApplyFilters(df, filters))
            /\ r.n_pages >= 1
            /\ r.n_pages * page_size >= r.n_rows
            /\ (r.n_pages - 1) * page_size < Max2(r.n_rows, 1)
            /\ r.current_page \in 1..r.n_pages
            /\ r.n_rows = 0 =>
                 /\ r.n_pages = 1
                 /\ r.current_page = 1
                 /\ r.page = <<>>
                 /\ r.status = "Page 1/1 | 0 rows found"
    /\ page_slider.max = LastRender.n_pages
    /\ page_slider.value \in 1..page_slider.max

\* C1 witness: a filter that leaves no row was typed while the slider stood
\* on a later page of a non-empty table.
C1_Witness ==
    /\ last.kind = "filter"
    /\ last.value > 1
    /\ Len(df) > 0
    /\ LastRender.n_rows = 0
    /\ LastRender.status = "Page 1/1 | 0 rows found"

\* Case-insensitive literal substring test, as the specification words it.
SubstringCI(text, s) ==
    \E i \in 1..(Len(s) - Len(text) + 1) :
        \A j \in 1..Len(text) : Lower(text[j]) = Lower(s[i + j - 1])

\* C2 (as claimed): the rows that remain are exactly the rows for which
\* every non-empty filter text is a case-insensitive substring of the
\* stringified cell of its column, in input order.
C2_RemainingRowsAreSubstringMatches ==
    ApplyFilters(df, filters) =
        SelectSeq([k \in 1..Len(df) |-> k],
                  LAMBDA k : \A c \in 1..NumCols :
                      filters[c] # <<>> =>
                          SubstringCI(filters[c], AsStr(df[k][c])))

\* C3: making an empty filter non-empty, the other filters kept, never adds
\* a row: the rows that remain are a subset of those that remained before,
\* and the reported row count does not grow.
C3_MoreFiltersFewerRows ==
    [][ ( /\ \E c \in 1..NumCols : filters[c] = <<>> /\ filters'[c] # <<>>
          /\ \A c \in 1..NumCols : filters[c] # <<>> => filters'[c] = filters[c] )
        => /\ RowSet(ApplyFilters(df, filters'))
                \subseteq RowSet(ApplyFilters(df, filters))
           /\ output'[Len(output')].n_rows <= LastRender.n_rows ]_vars

\* C3 witness: a filter was typed into the second column while the first
\* column already carried one, and rows were dropped but not all of them.
C3_Witness ==
    /\ last.kind = "filter"
    /\ last.col = 2
    /\ \A c \in 1..NumCols : FilterActive(filters[c])
    /\ LastRender.n_rows > 0
    /\ LastRender.n_rows
         < Len(ApplyFilters(df, [filters EXCEPT ![2] = <<>>]))

\* C4: every rendered slice is the filtered rows at the 0-based positions
\* [(page-1)*page_size, page*page_size) of the clamped page, and the status
\* line is "Page {page}/{total_pages} | {N} rows found" for that page.  For
\* the 45-row table with page size 20: rows 1-20 and "Page 1/3 | 45 rows
\* found" without filters, and "Page 1/1 | 5 rows found" with all 5 rows for
\* a filter that matches 5 rows.
C4_SliceAndStatusLine ==
    /\ \A k \in 1..Len(output) :
         LET r == output[k]
             rows == ApplyFilters(df, filters)
             first == (r.current_page - 1) * page_size
             size == Min2(r.current_page * page_size, Len(rows)) - first
         IN /\ r.current_page = page_slider.value
            /\ r.page = [n \in 1..size |-> rows[first + n]]
            /\ r.shown = [n \in 1..size |-> df[rows[first + n]]]
            /\ r.status = "Page " \o ToString(r.current_page) \o "/"
                            \o ToString(r.n_pages) \o " | "
                            \o ToString(Len(rows)) \o " rows found"
    /\ (df = ExampleTable /\ filters = NoFilters /\ page_slider.value = 1) =>
         /\ LastRender.page = [n \in 1..20 |-> n]
         /\ LastRender.status = "Page 1/3 | 45 rows found"
    /\ (df = ExampleTable /\ Len(ApplyFilters(df, filters)) = 5) =>
         /\ LastRender.page = <<9, 18, 27, 36, 45>>
         /\ LastRender.status = "Page 1/1 | 5 rows found"

\* C4 witness: in the 45-row table a filter matching 5 rows was typed while
\* the slider stood on page 3.
C4_Witness ==
    /\ df = ExampleTable
    /\ last.kind = "filter"
    /\ last.value = 3
    /\ LastRender.status = "Page 1/1 | 5 rows found"
    /\ Len(LastRender.shown) = 5

\* C5 (as claimed): no recompute begins while another is in progress, and
\* each state change leaves exactly one rendered slice and one status line.
C5_NoOverlappingRecompute ==
    /\ depth <= 1
    /\ Len(output) = 1

----------------------------------------------------------------------------
(* Properties of the fetchers (SpecFetcher).                               *)

Responses1 == FindPlaceBodies \cup {Raises}

Responses3 == DetailsBodies \cup {Raises}

\* A Find Place response that carries a candidate, and its place id.
Yields(r) == r # Raises /\ "candidates" \in DOMAIN r /\ Len(r.candidates) > 0

YieldedId(r) == r.candidates[1].place_id

\* The requests issued by the step from the current state.
Issued == SubSeq(requests', Len(requests) + 1, Len(requests'))

\* A field of the result of a Details response, null when absent.
ResultField(r, k) ==
    IF "result" \in DOMAIN r /\ k \in DOMAIN r.result THEN r.result[k]
    ELSE None

\* C6: per airport the lookup "<code> Airport" is issued first; the lookup
\* by name is issued iff the code lookup gave no match; the details request
\* is issued iff a lookup gave a place id, and for that id; when neither
\* gave one the row has rating and reviews null, nothing is raised and the
\* loop goes on with the next airport.
C6_TwoStageLookup ==
    [][ \A r1 \in Responses1, r2 \in Responses1, r3 \in Responses3 :
          ProcessAirport(r1, r2, r3) =>
            LET code == airports[apt_i].APT_CODE
                name == airports[apt_i].APT_NAME
                byName == [api |-> "findplacefromtext", input |-> name]
                found == Yields(r1) \/ Yields(r2)
                target == IF Yields(r1) THEN YieldedId(r1) ELSE YieldedId(r2)
                details == {k \in 1..Len(Issued) : Issued[k].api = "details"}
            IN /\ Len(Issued) >= 1
               /\ Issued[1] = [api |-> "findplacefromtext",
                               input |-> code \o " Airport"]
               /\ r1 # Raises =>
                    ((\E k \in 2..Len(Issued) : Issued[k] = byName)
                        <=> ~Yields(r1))
               /\ (r1 # Raises /\ (Yields(r1) \/ r2 # Raises)) =>
                    /\ (details # {}) <=> found
                    /\ found =>
                         /\ details = {Len(Issued)}
                         /\ Issued[Len(Issued)]
                              = [api |-> "details", place_id |-> target]
                    /\ ~found =>
                         /\ pc' = "loop"
                         /\ apt_i' = apt_i + 1
                         /\ results' = Append(results,
                               [APT_CODE |-> code, APT_NAME |-> name,
                                rating |-> None, reviews |-> None])
      ]_vars

\* C6 witness: both lookups of the first airport gave no match, its row has
\* null rating and reviews, and the second airport was looked up after it.
C6_Witness ==
    /\ pc = "loop"
    /\ Len(results) = 2
    /\ results[1].rating = None /\ results[1].reviews = None
    /\ "GOOGLE_NAME" \notin DOMAIN results[1]
    /\ Len(requests) >= 3
    /\ requests[1].input = airports[1].APT_CODE \o " Airport"
    /\ requests[2].input = airports[1].APT_NAME
    /\ requests[3].input = airports[2].APT_CODE \o " Airport"

\* C7 (as claimed): every row written after a lookup gave a place id has
\* non-null GOOGLE_NAME, rating and reviews.
C7_FoundRowHasNoNulls ==
    \A k \in 1..Len(results) :
        "GOOGLE_NAME" \in DOMAIN results[k] =>
            /\ results[k].GOOGLE_NAME # None
            /\ results[k].rating # None
            /\ results[k].reviews # None

\* C7 (amended): whenever a lookup gives a place id P, the details are
\* requested for P and the row carries GOOGLE_NAME, rating and reviews equal
\* to the name, rating and user_ratings_total of the details result, each
\* null when the response has no result or the result lacks the field.
C7_FoundRowCopiesDetails ==
    [][ \A r1 \in Responses1, r2 \in Responses1, r3 \in DetailsBodies :
          ( /\ ProcessAirport(r1, r2, r3)
            /\ r1 # Raises
            /\ Yields(r1) \/ (r2 # Raises /\ Yields(r2)) ) =>
            LET target == IF Yields(r1) THEN YieldedId(r1) ELSE YieldedId(r2)
            IN /\ Issued[Len(Issued)] = [api |-> "details", place_id |-> target]
               /\ results' = Append(results,
                     [ APT_CODE    |-> airports[apt_i].APT_CODE,
                       APT_NAME    |-> airports[apt_i].APT_NAME,
                       GOOGLE_NAME |-> ResultField(r3, "name"),
                       rating      |-> ResultField(r3, "rating"),
                       reviews     |-> ResultField(r3, "user_ratings_total") ])
      ]_vars

\* C7 witness: the code lookup failed, the name lookup gave a place id, the
\* details were requested for it, and the place has a name but no rating.
C7_Witness ==
    /\ Len(results) >= 1
    /\ Len(requests) >= 3
    /\ requests[2] = [api |-> "findplacefromtext",
                      input |-> airports[1].APT_NAME]
    /\ requests[3].api = "details"
    /\ "GOOGLE_NAME" \in DOMAIN results[1]
    /\ results[1].GOOGLE_NAME # None
    /\ results[1].rating = None

\* C8 (as claimed): after the request for entity k failed, the results of
\* the entities 1..k-1 are available in the output.
C8_SiblingResultsInOutput ==
    /\ (pc = "raised" /\ Len(results) >= 1) => out_file = Written(results)
    /\ (bea_pc = "raised" /\ Len(dfs) >= 1) => bea_ret = Returned(Concat(dfs))

\* A request of the iteration that was made raised.
UsedRequestRaised(r1, r2, r3) ==
    \/ r1 = Raises
    \/ ~Yields(r1) /\ r2 = Raises
    \/ (Yields(r1) \/ Yields(r2)) /\ r3 = Raises

\* C8 (amended): a request that raises (in get_bea_state_data also an
\* error-flagged body, and a body without the Statistic, UnitOfMeasure or,
\* with metric_note, Notes that the loop prints) ends the whole run at once:
\* the failing request is the last one issued, the results of the entities
\* before it are neither written nor returned, and the run produces no
\* output; an error-flagged body of the places API does not raise.
C8_FailureEndsRunWithoutOutput ==
    /\ [](pc = "raised" =>
            /\ out_file = NotWritten
            /\ apt_i <= Len(airports)
            /\ Len(results) = apt_i - 1)
    /\ [](bea_pc = "raised" =>
            /\ bea_ret = NoReturn
            /\ Len(dfs) \in {bea_i - 1, bea_i}
            /\ Len(bea_requests) = Min2(bea_i, Len(line_codes)))
    /\ [][ \A r1 \in Responses1, r2 \in Responses1, r3 \in Responses3 :
             ProcessAirport(r1, r2, r3) =>
               /\ (pc' = "raised") <=> UsedRequestRaised(r1, r2, r3)
               /\ (pc' = "raised") => results' = results /\ apt_i' = apt_i
         ]_vars
    /\ [][ \A r \in UNION {BeaBodies(c) : c \in LineCodes} \cup {Raises} :
             FetchLineCode(r) =>
               /\ (bea_pc' = "raised") <=>
                     \/ r = Raises
                     \/ "Results" \notin DOMAIN r.BEAAPI
                     \/ "Data" \notin DOMAIN r.BEAAPI.Results
                     \/ "Statistic" \notin DOMAIN r.BEAAPI.Results
                     \/ "UnitOfMeasure" \notin DOMAIN r.BEAAPI.Results
                     \/ metric_note /\ "Notes" \notin DOMAIN r.BEAAPI.Results
               /\ bea_requests' = Append(bea_requests, line_codes[bea_i])
               /\ (bea_pc' = "raised") =>
                     /\ bea_i' = bea_i
                     /\ bea_ret' = NoReturn
                     /\ SubSeq(dfs', 1, Len(dfs)) = dfs
         ]_vars

\* C8 witness: the request for the second line code failed after the first
\* line code had been fetched, and nothing was returned.
C8_Witness ==
    /\ bea_pc = "raised"
    /\ Len(dfs) = 1
    /\ Len(bea_requests) = 2
    /\ bea_ret = NoReturn

----------------------------------------------------------------------------
(* Properties of plot_heatmap_by_group (SpecHeatmap).                      *)

Observed(col) == {hm_df[k][col] : k \in 1..Len(hm_df)}

NoRepeats(l) == \A a, b \in 1..Len(l) : l[a] = l[b] => a = b

\* The number of rows of the table that carry (G, x, y).
RowsAt(G, x, y) ==
    Cardinality({k \in 1..Len(hm_df) :
                    hm_df[k] = [grp |-> G, x |-> x, y |-> y]})

\* The number of rows of the table that carry the group G.
RowsOfGroup(G) == Cardinality({k \in 1..Len(hm_df) : hm_df[k].grp = G})

\* C9: any two panels carry the same sequence of x values and the same
\* sequence of y values: the distinct values of the whole table (a null
\* among them when the table has one), once each; every panel's z has one
\* row per y value and one cell per x value.
C9_PanelsShareGlobalAxes ==
    hm_pc = "done" =>
        \A p, q \in 1..Len(fig) :
            /\ fig[p].x = fig[q].x
            /\ fig[p].y = fig[q].y
            /\ NoRepeats(fig[p].x) /\ NoRepeats(fig[p].y)
            /\ {fig[p].x[k] : k \in 1..Len(fig[p].x)} = Observed("x")
            /\ {fig[p].y[k] : k \in 1..Len(fig[p].y)} = Observed("y")
            /\ Len(fig[p].z) = Len(fig[p].y)
            /\ \A iy \in 1..Len(fig[p].y) :
                   Len(fig[p].z[iy]) = Len(fig[p].x)

\* C9 witness: two groups were plotted whose own x values and own y values
\* differ.
C9_Witness ==
    /\ hm_pc = "done"
    /\ Len(fig) = 2
    /\ \E v \in Observed("x") :
           \A k \in 1..Len(hm_df) : hm_df[k].grp = "B" => hm_df[k].x # v
    /\ \E v \in Observed("y") :
           \A k \in 1..Len(hm_df) : hm_df[k].grp = "A" => hm_df[k].y # v

\* C10: one panel per distinct group value; the cell (x, y) of the panel of
\* group G holds the number of rows (G, x, y) when there is one, and "no
\* data" otherwise (read from the plotted z of a call with normalize =
\* false, where z is the dense table).  For the example rows: panel A has
\* (hi, east) = 1 and (lo, east) = 1, panel B has (lo, west) = 1, every
\* other cell no data.
C10_PanelCellsCountRows ==
    (hm_pc = "done" /\ ~hm_normalize) =>
        /\ Len(fig) = Cardinality(Observed("grp"))
        /\ {fig[p].group : p \in 1..Len(fig)} = Observed("grp")
        /\ \A p \in 1..Len(fig) :
             \A iy \in 1..Len(fig[p].y), ix \in 1..Len(fig[p].x) :
               LET n == RowsAt(fig[p].group, fig[p].x[ix], fig[p].y[iy])
                   cell == fig[p].z[iy][ix]
               IN IF n >= 1 THEN cell = Num(n, 1) ELSE cell = NaN
        /\ hm_df = ExampleHeatRows =>
             \A p \in 1..Len(fig) :
               \A iy \in 1..2, ix \in 1..2 :
                 LET cell == fig[p].z[iy][ix]
                     at == <<fig[p].group, fig[p].x[ix], fig[p].y[iy]>>
                 IN IF at \in {<<"A", "hi", "east">>, <<"A", "lo", "east">>,
                               <<"B", "lo", "west">>}
                    THEN cell = Num(1, 1)
                    ELSE cell = NaN

\* C11: with normalize = true, in the panel of a group with a total
\* observed count above 0 every non-null cell is count * 100 / total (as
\* exact numbers), the non-null cells sum to 100 and the panel is labelled
\* PERCENT; a panel of a group with total 0 keeps its counts and is
\* labelled COUNT.
C11_NormalizedPanelSumsTo100 ==
    (hm_pc = "done" /\ hm_normalize) =>
        \A p \in 1..Len(fig) :
            LET total == RowsOfGroup(fig[p].group)
                sum == NanSum(Flatten(fig[p].z))
            IN IF total > 0
               THEN /\ fig[p].metric = "PERCENT"
                    /\ \A iy \in 1..Len(fig[p].y), ix \in 1..Len(fig[p].x) :
                         LET n == RowsAt(fig[p].group, fig[p].x[ix],
                                         fig[p].y[iy])
                             cell == fig[p].z[iy][ix]
                         IN IF n >= 1
                            THEN /\ ~cell.nan
                                 /\ cell.den > 0
                                 /\ cell.num * total = n * 100 * cell.den
                            ELSE cell.nan
                    /\ sum.den > 0
                    /\ sum.num = 100 * sum.den
               ELSE /\ fig[p].metric = "COUNT"
                    /\ \A iy \in 1..Len(fig[p].y), ix \in 1..Len(fig[p].x) :
                         fig[p].z[iy][ix] = NaN

----------------------------------------------------------------------------
(* Resource bounds of the ratings loop (FairSpecFetcher).                  *)

\* The requests of the step that go to the given API.
IssuedTo(api) == {k \in 1..Len(Issued) : Issued[k].api = api}

\* C12: as long as nothing raises, results holds one row per airport
\* processed, in input order, each with that airport's APT_CODE and
\* APT_NAME; an iteration issues at most two place lookups and one details
\* request, so at most 3 requests per row are issued in all; and the loop
\* ends, with one row for every input row written.
C12_OneRowPerAirportBoundedRequests ==
    /\ [](pc \in {"loop", "done"} =>
            /\ Len(results) = apt_i - 1
            /\ Len(results) <= Len(airports)
            /\ \A k \in 1..Len(results) :
                   /\ results[k].APT_CODE = airports[k].APT_CODE
                   /\ results[k].APT_NAME = airports[k].APT_NAME
            /\ Len(requests) <= 3 * Len(results))
    /\ [](pc = "done" =>
            /\ Len(results) = Len(airports)
            /\ out_file = Written(results))
    /\ [][ requests' # requests =>
             /\ Cardinality(IssuedTo("findplacefromtext")) <= 2
             /\ Cardinality(IssuedTo("details")) <= 1
             /\ Len(Issued) <= 3 ]_vars
    /\ (pc = "loop") ~> (pc \in {"done", "raised"})

\* C12 witness: two airports were processed without an exception, each with
\* two lookups and a details request, and both rows were written.
C12_Witness ==
    /\ pc = "done"
    /\ Len(airports) = 2
    /\ Len(requests) = 6
    /\ out_file = Written(results)
    /\ Len(results) = 2

====
